---- MODULE Spec2Model ----
(***************************************************************************)
(* The artifact-caching retrieval layer of dashboard.py: set_gauge,        *)
(* graph_features_global_impact, graph_features_local_impact,              *)
(* graph_feature and bivar, running against the scratch directory tmp and  *)
(* the remote scoring service.  Each execution context (a Streamlit script *)
(* run) executes one function at a time, statement by statement.           *)
(***************************************************************************)
EXTENDS Integers, Sequences, FiniteSets, TLC

\* ---------------------------------------------------------------- bounds
\* Number of function calls started in one behaviour.
MaxOps == 2
\* Number of chunks shutil.copyfileobj moves for one successful response.
NChunks == 2

\* ------------------------------------------------------ program constants
tmp == "./data/tmp/"
timeout == 30
bivar_timeout == 60
no_timeout == 0
gl_min_value == 5
gl_max_value == 30
lc_min_value == 5
lc_max_value == 30

\* The values load_id_list and get_feature_lists returned at start-up.
clients_id_list == <<1, 2>>
features_list == <<"EDUCATION", "AGE", "TARGET">>
cat_col == {"EDUCATION"}
num_col == {"AGE"}

\* Inputs the functions are called with.
ClientInputs == {1, 2}
MaxFeatInputs == {3, 5, 30}
NameInputs == {"EDUCATION", "AGE", "TARGET", "NOT_A_FEATURE"}
ScoreInputs == {4, 5}          \* the score in tenths: 0.4 and 0.5

Ctx == {1, 2}

\* files   the scratch directory tmp: file name -> chunks written so far
\* pc      where each context stands in the function it runs
\* call    the function each context runs and its arguments
\* loc     the locals of that function: filepath, the response r, the
\*         number of chunks copied, which os.path.exists test succeeded
\* issued  the requests.get calls the running function has made
\* ret     what the function returned or raised
\* last    the context's previous call, kept while the running call asks
\*         for the same artifact
\* nops    the number of calls made so far
VARIABLES files, pc, call, loc, issued, ret, last, nops

vars == <<files, pc, call, loc, issued, ret, last, nops>>

\* ------------------------------------------------------------- helpers
Range(s) == {s[i] : i \in 1..Len(s)}

\* list.index(x): the 0-based position of the first occurrence; -1 stands
\* for the ValueError Python raises when x is not in the list.
Index(list, x) ==
    IF x \in Range(list)
    THEN (CHOOSE i \in 1..Len(list) :
            list[i] = x /\ \A j \in 1..(i - 1) : list[j] # x) - 1
    ELSE -1

\* The f-strings that name the files.
GlobalPath(max_feat) == tmp \o "gfgi_" \o ToString(max_feat) \o ".png"
LocalPath(client_id, max_feat) ==
    tmp \o "gfli_" \o ToString(client_id) \o "_" \o ToString(max_feat) \o ".png"
FeaturePathNoClient(client_id, f_idx) ==
    tmp \o "feature_" \o ToString(f_idx) \o ".png"
FeaturePath(client_id, f_idx) ==
    tmp \o "feature_" \o ToString(client_id) \o "_" \o ToString(f_idx) \o ".png"
BivarPath(f1_idx, f2_idx) ==
    tmp \o "bivar" \o ToString(f1_idx) \o "_" \o ToString(f2_idx) \o ".png"

\* The request each function sends: the URL with its query string.
ScoreUrl(client_id) == "/" \o ToString(client_id)
GlobalUrl(max_feat) == "/global_impact?max_feat=" \o ToString(max_feat)
LocalUrl(client_id, max_feat) ==
    "/" \o ToString(client_id) \o "/local_impact?max_feat=" \o ToString(max_feat)
FeatureUrl(client_id, feature) ==
    "/" \o ToString(client_id) \o "/feature?feature=" \o feature
BivarUrl(feature_1, feature_2) ==
    "/graph_bivar?feature_1=" \o feature_1 \o "&feature_2=" \o feature_2

\* os.path.exists(filepath)
ExistsWrongName(fs, path) == (path \o ".png") \in DOMAIN fs
ExistsWholeOnly(fs, path) == path \in DOMAIN fs /\ Len(fs[path]) >= NChunks
Exists(fs, path) == path \in DOMAIN fs

\* The service is deterministic: the image it streams for a request, as the
\* chunks copyfileobj reads, and the body of a non-success response.
Body(url) == [k \in 1..NChunks |-> <<"png", url, k>>]
ErrorBody(url) == << <<"error", url, 1>> >>
Hole == <<"hole", "", 0>>

\* open(filepath, 'wb'): the file is created, or truncated when it exists.
OpenWb(fs, path) == [p \in (DOMAIN fs) \cup {path} |-> IF p = path THEN <<>> ELSE fs[p]]

\* f.write(chunk) at the writer's own offset pos; a gap left by another
\* writer's truncation reads as a hole.
WriteAt(content, pos, chunk) ==
    [i \in 1..(IF pos + 1 > Len(content) THEN pos + 1 ELSE Len(content)) |->
        IF i = pos + 1 THEN chunk
        ELSE IF i <= Len(content) THEN content[i]
        ELSE Hole]

WriteChunk(fs, path, pos, chunk) ==
    [fs EXCEPT ![path] = WriteAt(fs[path], pos, chunk)]

\* img_size of bivar
ImgSizeOneWay(feature_1, feature_2) ==
    IF feature_1 \in cat_col /\ feature_2 \in num_col THEN "large" ELSE "normal"
ImgSize(feature_1, feature_2) ==
    IF (feature_1 \in cat_col /\ feature_2 \in num_col)
       \/ (feature_1 \in num_col /\ feature_2 \in cat_col)
    THEN "large" ELSE "normal"

\* result of set_gauge: the title of the figure
GaugeTitle(score) == IF score >= 5 THEN "Credit non accepte" ELSE "Credit accepte"

\* ------------------------------------------------------------- records
NoCall == [op |-> "none", client_id |-> 0, max_feat |-> 0,
           feature_1 |-> "", feature_2 |-> "", origin |-> ""]
NoLoc == [filepath |-> "", found |-> "", r |-> <<>>, status |-> "", pos |-> 0]
NoRet == [kind |-> "none", val |-> "", img_size |-> "", score |-> 0]
NoLast == [call |-> NoCall, found |-> "", issued |-> <<>>, ret |-> NoRet]

PathRet(path, size) == [kind |-> "path", val |-> path, img_size |-> size, score |-> 0]
ErrorRet(name) == [kind |-> "error", val |-> name, img_size |-> "", score |-> 0]
FigRet(score) == [kind |-> "fig", val |-> GaugeTitle(score), img_size |-> "", score |-> score]

StreamOps == {"global", "local", "feature", "bivar"}

\* The widgets of the page: the two sliders and the guard of the bivariate
\* section.
GlobalSliderFromOne(n) == 1 <= n /\ n <= gl_max_value
BivarGuardOff(feature_1, feature_2) == TRUE
GlobalSlider(n) == gl_min_value <= n /\ n <= gl_max_value
LocalSlider(n) == lc_min_value <= n /\ n <= lc_max_value
BivarGuard(feature_1, feature_2) == feature_1 # feature_2

MkCall(op, client_id, max_feat, feature_1, feature_2, origin) ==
    [op |-> op, client_id |-> client_id, max_feat |-> max_feat,
     feature_1 |-> feature_1, feature_2 |-> feature_2, origin |-> origin]

\* The calls the page script makes: the widgets constrain their arguments.
PageCalls ==
    {MkCall("gauge", c, 0, "", "", "page") : c \in Range(clients_id_list)}
    \cup
    {MkCall("global", 0, n, "", "", "page") : n \in {m \in MaxFeatInputs : GlobalSlider(m)}}
    \cup
    {MkCall("local", c, n, "", "", "page") :
        c \in Range(clients_id_list), n \in {m \in MaxFeatInputs : LocalSlider(m)}}
    \cup
    {MkCall("feature", c, 0, f, "", "page") : c \in Range(clients_id_list), f \in NameInputs}
    \cup
    {MkCall("bivar", 0, 0, p[1], p[2], "page") :
        p \in {q \in NameInputs \X NameInputs : BivarGuard(q[1], q[2])}}

\* The functions called other than by the page, with any argument.  A call
\* the page can make runs the same code with the same arguments, so only the
\* calls the widgets exclude are listed here.
DirectCalls ==
    {MkCall("gauge", c, 0, "", "", "direct") : c \in ClientInputs \ Range(clients_id_list)}
    \cup
    {MkCall("global", 0, n, "", "", "direct") : n \in {m \in MaxFeatInputs : ~GlobalSlider(m)}}
    \cup
    {MkCall("local", c, n, "", "", "direct") :
        c \in ClientInputs, n \in {m \in MaxFeatInputs : ~LocalSlider(m)}}
    \cup
    {MkCall("bivar", 0, 0, p[1], p[2], "direct") :
        p \in {q \in NameInputs \X NameInputs : ~BivarGuard(q[1], q[2])}}

\* The primary file, had bivar named it by the sorted pair of indexes.
PrimaryPathCanonical(k) ==
    CASE k.op = "global" -> GlobalPath(k.max_feat)
      [] k.op = "local" -> LocalPath(k.client_id, k.max_feat)
      [] k.op = "feature" -> FeaturePath(k.client_id, Index(features_list, k.feature_1))
      [] k.op = "bivar" ->
            IF Index(features_list, k.feature_1) <= Index(features_list, k.feature_2)
            THEN BivarPath(Index(features_list, k.feature_1),
                           Index(features_list, k.feature_2))
            ELSE BivarPath(Index(features_list, k.feature_2),
                           Index(features_list, k.feature_1))
      [] OTHER -> ""

\* The primary file of a call (filepath, filepath_1).
PrimaryPath(k) ==
    CASE k.op = "global" -> GlobalPath(k.max_feat)
      [] k.op = "local" -> LocalPath(k.client_id, k.max_feat)
      [] k.op = "feature" -> FeaturePath(k.client_id, Index(features_list, k.feature_1))
      [] k.op = "bivar" -> BivarPath(Index(features_list, k.feature_1),
                                     Index(features_list, k.feature_2))
      [] OTHER -> ""

\* filepath_2 of bivar
ReversePathSameOrder(k) ==
    BivarPath(Index(features_list, k.feature_1), Index(features_list, k.feature_2))
ReversePath(k) ==
    BivarPath(Index(features_list, k.feature_2), Index(features_list, k.feature_1))

\* The request a call sends on a miss, and the timeout it passes.
Url(k) ==
    CASE k.op = "gauge" -> ScoreUrl(k.client_id)
      [] k.op = "global" -> GlobalUrl(k.max_feat)
      [] k.op = "local" -> LocalUrl(k.client_id, k.max_feat)
      [] k.op = "feature" -> FeatureUrl(k.client_id, k.feature_1)
      [] k.op = "bivar" -> BivarUrl(k.feature_1, k.feature_2)
      [] OTHER -> ""

TimeoutOf(k) ==
    CASE k.op = "gauge" -> no_timeout
      [] k.op = "bivar" -> bivar_timeout
      [] OTHER -> timeout

\* Two calls ask for the same artifact: the same function with the same
\* arguments, or bivar with the two features in the other order.
SameArtifact(j, k) ==
    /\ j.op = k.op
    /\ j.client_id = k.client_id
    /\ j.max_feat = k.max_feat
    /\ \/ j.feature_1 = k.feature_1 /\ j.feature_2 = k.feature_2
       \/ j.feature_1 = k.feature_2 /\ j.feature_2 = k.feature_1

RemoteCall(k) == [url |-> Url(k), timeout |-> TimeoutOf(k)]

\* set_gauge asks the service for the score on every call.
GaugeRequestsCached(k) == <<>>
GaugeRequests(k) == <<RemoteCall(k)>>

\* features_list.index raises ValueError for a name that is not listed.
IndexRaisesFirstOnly(k) ==
    k.op \in {"feature", "bivar"} /\ Index(features_list, k.feature_1) = -1
IndexRaises(k) ==
    \/ k.op = "feature" /\ Index(features_list, k.feature_1) = -1
    \/ k.op = "bivar" /\ (Index(features_list, k.feature_1) = -1
                          \/ Index(features_list, k.feature_2) = -1)

\* The return value, had bivar read the order of the pair off the name of
\* the file it found.
ReturnedHintByFile(k, path) ==
    PathRet(path, IF k.op # "bivar" THEN ""
                  ELSE IF path = PrimaryPath(k)
                       THEN ImgSizeOneWay(k.feature_1, k.feature_2)
                       ELSE ImgSizeOneWay(k.feature_2, k.feature_1))

\* What the function returns once the file is in place.
Returned(k, path) ==
    PathRet(path, IF k.op = "bivar" THEN ImgSize(k.feature_1, k.feature_2) ELSE "")

\* ------------------------------------------------------------- actions
Init ==
    /\ files = <<>>
    /\ pc = [c \in Ctx |-> "idle"]
    /\ call = [c \in Ctx |-> NoCall]
    /\ loc = [c \in Ctx |-> NoLoc]
    /\ issued = [c \in Ctx |-> <<>>]
    /\ ret = [c \in Ctx |-> NoRet]
    /\ last = [c \in Ctx |-> NoLast]
    /\ nops = 0

\* A function is called; the previous call of the context, if any, has
\* returned or raised.  set_gauge runs to its end: it touches nothing that
\* is shared.  The other functions compute their file names and make their
\* first os.path.exists test.
Enter(c, k) ==
    /\ pc[c] \in {"idle", "done"}
    /\ nops < MaxOps
    /\ nops' = nops + 1
    /\ last' = [last EXCEPT ![c] =
                  IF SameArtifact(call[c], k)
                  THEN [call |-> call[c], found |-> loc[c].found,
                        issued |-> issued[c], ret |-> ret[c]]
                  ELSE NoLast]
    /\ call' = [call EXCEPT ![c] = k]
    /\ UNCHANGED files
    /\ CASE k.op = "gauge" ->
              \* r = requests.get(url_server + '/' + str(client_id)); r.json()['score']
              /\ issued' = [issued EXCEPT ![c] = GaugeRequests(k)]
              /\ loc' = [loc EXCEPT ![c] = NoLoc]
              /\ pc' = [pc EXCEPT ![c] = "done"]
              /\ \/ \E s \in ScoreInputs : ret' = [ret EXCEPT ![c] = FigRet(s)]
                 \/ ret' = [ret EXCEPT ![c] = ErrorRet("RequestException")]
         [] IndexRaises(k) ->
              \* features_list.index(feature)
              /\ issued' = [issued EXCEPT ![c] = <<>>]
              /\ loc' = [loc EXCEPT ![c] = NoLoc]
              /\ pc' = [pc EXCEPT ![c] = "done"]
              /\ ret' = [ret EXCEPT ![c] = ErrorRet("ValueError")]
         [] Exists(files, PrimaryPath(k)) ->
              \* the file is there: return filepath
              /\ issued' = [issued EXCEPT ![c] = <<>>]
              /\ loc' = [loc EXCEPT ![c] =
                           [NoLoc EXCEPT !.filepath = PrimaryPath(k), !.found = "primary"]]
              /\ pc' = [pc EXCEPT ![c] = "done"]
              /\ ret' = [ret EXCEPT ![c] = Returned(k, PrimaryPath(k))]
         [] OTHER ->
              /\ issued' = [issued EXCEPT ![c] = <<>>]
              /\ loc' = [loc EXCEPT ![c] =
                           [NoLoc EXCEPT !.filepath = PrimaryPath(k),
                                         !.found = IF k.op = "bivar" THEN "" ELSE "miss"]]
              /\ pc' = [pc EXCEPT ![c] = IF k.op = "bivar" THEN "exists2" ELSE "request"]
              /\ ret' = [ret EXCEPT ![c] = NoRet]

\* A call the page script makes.
PageCall(c) == \E k \in PageCalls : Enter(c, k)

\* A call made with arguments the page's widgets exclude.
DirectCall(c) == \E k \in DirectCalls : Enter(c, k)

\* bivar, had it gone to the request without the second os.path.exists.
CheckExistsReverseSkipped(c) ==
    /\ pc[c] = "exists2"
    /\ loc' = [loc EXCEPT ![c].found = "miss", ![c].filepath = PrimaryPath(call[c])]
    /\ pc' = [pc EXCEPT ![c] = "request"]
    /\ UNCHANGED <<ret, files, call, issued, last, nops>>

\* bivar, had it copied the reverse-order file to the as-given name.
CheckExistsReverseRekey(c) ==
    /\ pc[c] = "exists2"
    /\ IF Exists(files, ReversePath(call[c]))
       THEN /\ files' = [p \in (DOMAIN files) \cup {PrimaryPath(call[c])} |->
                           IF p = PrimaryPath(call[c])
                           THEN files[ReversePath(call[c])] ELSE files[p]]
            /\ loc' = [loc EXCEPT ![c].found = "reverse",
                                  ![c].filepath = PrimaryPath(call[c])]
            /\ ret' = [ret EXCEPT ![c] = Returned(call[c], PrimaryPath(call[c]))]
            /\ pc' = [pc EXCEPT ![c] = "done"]
       ELSE /\ loc' = [loc EXCEPT ![c].found = "miss",
                                  ![c].filepath = PrimaryPath(call[c])]
            /\ pc' = [pc EXCEPT ![c] = "request"]
            /\ UNCHANGED <<ret, files>>
    /\ UNCHANGED <<call, issued, last, nops>>

\* bivar: elif os.path.exists(filepath_2) ... else
CheckExistsReverse(c) ==
    /\ pc[c] = "exists2"
    /\ IF Exists(files, ReversePath(call[c]))
       THEN /\ loc' = [loc EXCEPT ![c].found = "reverse",
                                  ![c].filepath = ReversePath(call[c])]
            /\ ret' = [ret EXCEPT ![c] = Returned(call[c], ReversePath(call[c]))]
            /\ pc' = [pc EXCEPT ![c] = "done"]
       ELSE /\ loc' = [loc EXCEPT ![c].found = "miss",
                                  ![c].filepath = PrimaryPath(call[c])]
            /\ pc' = [pc EXCEPT ![c] = "request"]
            /\ UNCHANGED ret
    /\ UNCHANGED <<files, call, issued, last, nops>>

\* The request, had the function tried once more after a first failure
\* to connect.
RequestRetries(c) ==
    /\ pc[c] = "request"
    /\ issued' = [issued EXCEPT ![c] = Append(@, RemoteCall(call[c]))]
    /\ \/ /\ loc' = [loc EXCEPT ![c].r = Body(Url(call[c])), ![c].status = "ok"]
          /\ pc' = [pc EXCEPT ![c] = "open"]
          /\ UNCHANGED ret
       \/ /\ loc' = [loc EXCEPT ![c].r = ErrorBody(Url(call[c])), ![c].status = "error"]
          /\ pc' = [pc EXCEPT ![c] = "open"]
          /\ UNCHANGED ret
       \/ /\ issued[c] = <<>>
          /\ UNCHANGED <<ret, pc, loc>>
       \/ /\ issued[c] # <<>>
          /\ ret' = [ret EXCEPT ![c] = ErrorRet("RequestException")]
          /\ pc' = [pc EXCEPT ![c] = "done"]
          /\ UNCHANGED loc
    /\ UNCHANGED <<files, call, last, nops>>

\* r = requests.get(..., stream=True, ...): the response arrives (with a
\* success or a non-success status, which the code does not look at), or
\* requests raises ConnectionError or Timeout before there is a response.
Request(c) ==
    /\ pc[c] = "request"
    /\ issued' = [issued EXCEPT ![c] = Append(@, RemoteCall(call[c]))]
    /\ \/ /\ loc' = [loc EXCEPT ![c].r = Body(Url(call[c])), ![c].status = "ok"]
          /\ pc' = [pc EXCEPT ![c] = "open"]
          /\ UNCHANGED ret
       \/ /\ loc' = [loc EXCEPT ![c].r = ErrorBody(Url(call[c])), ![c].status = "error"]
          /\ pc' = [pc EXCEPT ![c] = "open"]
          /\ UNCHANGED ret
       \/ /\ ret' = [ret EXCEPT ![c] = ErrorRet("RequestException")]
          /\ pc' = [pc EXCEPT ![c] = "done"]
          /\ UNCHANGED loc
    /\ UNCHANGED <<files, call, last, nops>>

\* with open(filepath, 'wb') as f
Open(c) ==
    /\ pc[c] = "open"
    /\ files' = OpenWb(files, loc[c].filepath)
    /\ loc' = [loc EXCEPT ![c].pos = 0]
    /\ pc' = [pc EXCEPT ![c] = "copy"]
    /\ UNCHANGED <<call, issued, ret, last, nops>>

\* shutil.copyfileobj(r.raw, f): one chunk is read and written; after the
\* last one the with block closes the file and the function returns.
CopyChunk(c) ==
    /\ pc[c] = "copy"
    /\ loc[c].pos < Len(loc[c].r)
    /\ files' = WriteChunk(files, loc[c].filepath, loc[c].pos, loc[c].r[loc[c].pos + 1])
    /\ loc' = [loc EXCEPT ![c].pos = @ + 1]
    /\ IF loc[c].pos + 1 = Len(loc[c].r)
       THEN /\ ret' = [ret EXCEPT ![c] = Returned(call[c], loc[c].filepath)]
            /\ pc' = [pc EXCEPT ![c] = "done"]
       ELSE /\ pc' = [pc EXCEPT ![c] = "copy"]
            /\ UNCHANGED ret
    /\ UNCHANGED <<call, issued, last, nops>>

\* shutil.copyfileobj(r.raw, f): the read of the next chunk times out
\* (urllib3's ReadTimeoutError); the exception leaves the with block, which
\* closes the file as it is.
CopyTimeout(c) ==
    /\ pc[c] = "copy"
    /\ loc[c].pos < Len(loc[c].r)
    /\ ret' = [ret EXCEPT ![c] = ErrorRet("ReadTimeoutError")]
    /\ pc' = [pc EXCEPT ![c] = "done"]
    /\ UNCHANGED <<files, call, loc, issued, last, nops>>

Step(c) ==
    \/ PageCall(c)
    \/ DirectCall(c)
    \/ CheckExistsReverse(c)
    \/ Request(c)
    \/ Open(c)
    \/ CopyChunk(c)
    \/ CopyTimeout(c)

\* One script run at a time: every call returns before the next is made.
Next == Step(1)

Spec == Init /\ [][Next]_vars

\* Two script runs share the scratch directory.
NextConc == \E c \in Ctx : Step(c)

SpecConc == Init /\ [][NextConc]_vars

\* ------------------------------------------------------------ properties
Done(c) == pc[c] = "done"

\* The whole of one response is in the file: nothing missing, no hole.
Whole(content) ==
    /\ Len(content) > 0
    /\ \/ content = Body(content[1][2])
       \/ content = ErrorBody(content[1][2])

Listed(feature) == feature \in Range(features_list)

\* A second call of the same function with the same arguments has ended,
\* and the first one found none of its files.
SecondOfTwo(c) ==
    /\ Done(c)
    /\ call[c].op \in StreamOps
    /\ ~IndexRaises(call[c])
    /\ last[c].call = call[c]

\* C1 as stated: when the first of two successive identical calls found its
\* file missing, the two calls issue one remote call in all, the second
\* issues none and returns the path of the stored file.
C1_OneFetchAsStated ==
    \A c \in Ctx :
        (SecondOfTwo(c) /\ last[c].found \in {"miss", "reverse"})
        => /\ Len(last[c].issued) + Len(issued[c]) = 1
           /\ issued[c] = <<>>
           /\ ret[c].kind = "path"
           /\ Exists(files, ret[c].val)

\* C1 amended: when the first of two successive identical calls found none
\* of its candidate files and its remote request was answered, the two
\* calls issue one remote call in all, the second issues none and returns
\* the path of the file the first one stored under the primary name.
C1_OneFetchPerKey ==
    \A c \in Ctx :
        (/\ SecondOfTwo(c)
         /\ last[c].found = "miss"
         /\ last[c].ret # ErrorRet("RequestException"))
        => /\ Len(last[c].issued) + Len(issued[c]) = 1
           /\ last[c].issued = <<RemoteCall(call[c])>>
           /\ issued[c] = <<>>
           /\ ret[c].kind = "path"
           /\ ret[c].val = PrimaryPath(call[c])
           /\ Exists(files, ret[c].val)

\* C1 witness: graph_features_local_impact called twice, the first call a
\* miss that returned a path, the second a hit.
C1_Witness ==
    \E c \in Ctx :
        /\ SecondOfTwo(c)
        /\ last[c].found = "miss"
        /\ last[c].ret.kind = "path"
        /\ loc[c].found = "primary"
        /\ call[c].op = "local"

\* bivar(b, a) has ended right after bivar(a, b), a # b, both listed, and
\* the first call found neither file.
ReversedPair(c) ==
    /\ Done(c)
    /\ call[c].op = "bivar"
    /\ last[c].call.op = "bivar"
    /\ call[c].feature_1 # call[c].feature_2
    /\ last[c].call.feature_1 = call[c].feature_2
    /\ last[c].call.feature_2 = call[c].feature_1
    /\ ~IndexRaises(call[c])
    /\ last[c].found = "miss"

BivarFiles == {p \in DOMAIN files : \E i, j \in -1..Len(features_list) : p = BivarPath(i, j)}

\* C2 as stated: bivar(a, b) then bivar(b, a) from a store with neither
\* file: one /graph_bivar call, one stored file, the same path from both.
C2_SymmetryAsStated ==
    \A c \in Ctx :
        ReversedPair(c)
        => /\ Len(last[c].issued) + Len(issued[c]) = 1
           /\ ret[c].kind = "path"
           /\ last[c].ret.kind = "path"
           /\ ret[c].val = last[c].ret.val

\* C2 amended: when bivar(a, b) returns a path, a following bivar(b, a)
\* issues no remote call: one /graph_bivar call in all, one file for the
\* pair (under the name in the order a, b), and both calls return its path.
C2_SymmetryCollapse ==
    \A c \in Ctx :
        (ReversedPair(c) /\ last[c].ret.kind = "path")
        => /\ Len(last[c].issued) + Len(issued[c]) = 1
           /\ last[c].issued = <<RemoteCall(last[c].call)>>
           /\ issued[c] = <<>>
           /\ ret[c].kind = "path"
           /\ ret[c].val = last[c].ret.val
           /\ ret[c].val = PrimaryPath(last[c].call)
           /\ Exists(files, PrimaryPath(last[c].call))
           /\ ~Exists(files, PrimaryPath(call[c]))

\* C2 witness: bivar(b, a) found the file bivar(a, b) had just written,
\* the only bivar file there is.
C2_Witness ==
    \E c \in Ctx :
        /\ ReversedPair(c)
        /\ last[c].ret.kind = "path"
        /\ loc[c].found = "reverse"
        /\ Cardinality(BivarFiles) = 1

\* C3: a stream that times out after some chunks were copied leaves no
\* file under the name the call was filling.
C3_TimeoutLeavesNoFile ==
    \A c \in Ctx :
        (/\ Done(c)
         /\ ret[c] = ErrorRet("ReadTimeoutError")
         /\ loc[c].pos >= 1)
        => ~Exists(files, loc[c].filepath)

\* C4: whenever a call returns a path, the file at that path holds a whole
\* response at that moment, also with two contexts running.
C4_ReturnsWholeFile ==
    [][\A c \in Ctx :
          (pc[c] # "done" /\ pc'[c] = "done" /\ ret'[c].kind = "path")
          => /\ Exists(files', ret'[c].val)
             /\ Whole(files'[ret'[c].val])]_vars

\* C5: a non-success status makes the call fail with ServerError and leaves
\* no file under the name.
C5_ServerErrorLeavesNoFile ==
    \A c \in Ctx :
        (Done(c) /\ loc[c].status = "error")
        => /\ ret[c] = ErrorRet("ServerError")
           /\ ~Exists(files, loc[c].filepath)

\* A call of graph_feature or bivar that names a feature not in
\* features_list.
UnknownFeature(k) ==
    \/ k.op = "feature" /\ ~Listed(k.feature_1)
    \/ k.op = "bivar" /\ (~Listed(k.feature_1) \/ ~Listed(k.feature_2))

\* C6: a call that names a feature not in features_list raises (ValueError,
\* the code's UnknownFeature) without any remote call, and the step that
\* makes the call leaves the files as they were.
C6_UnknownFeatureRejected ==
    /\ [](\A c \in Ctx :
            (pc[c] # "idle" /\ UnknownFeature(call[c]))
            => /\ Done(c)
               /\ ret[c] = ErrorRet("ValueError")
               /\ issued[c] = <<>>
               /\ loc[c].filepath = "")
    /\ [][\A c \in Ctx :
            (nops' # nops /\ UnknownFeature(call'[c])) => files' = files]_vars

\* C6 witness: bivar with an unlisted second feature has raised, with files
\* in the directory.
C6_Witness ==
    \E c \in Ctx :
        /\ Done(c)
        /\ call[c].op = "bivar"
        /\ Listed(call[c].feature_1)
        /\ ~Listed(call[c].feature_2)
        /\ ret[c].kind = "error"
        /\ DOMAIN files # {}

OutOfRange(k) == k.op \in {"global", "local"} /\ (k.max_feat < 5 \/ k.max_feat > 30)

SamePair(k) == k.op = "bivar" /\ k.feature_1 = k.feature_2

Mixed(a, b) ==
    \/ a \in cat_col /\ b \notin cat_col /\ b \in num_col
    \/ b \in cat_col /\ a \notin cat_col /\ a \in num_col

\* C9: the hint bivar returns is 'large' exactly for a mixed pair and
\* 'normal' otherwise.
C9_SizeHint ==
    \A c \in Ctx :
        (Done(c) /\ call[c].op = "bivar" /\ ret[c].kind = "path")
        => /\ ret[c].img_size \in {"normal", "large"}
           /\ ret[c].img_size = "large" <=> Mixed(call[c].feature_1, call[c].feature_2)

\* C9 witness: bivar(numeric, categorical) has returned 'large'.
C9_Witness ==
    \E c \in Ctx :
        /\ Done(c)
        /\ call[c].op = "bivar"
        /\ call[c].feature_1 \in num_col
        /\ call[c].feature_2 \in cat_col
        /\ ret[c].kind = "path"
        /\ ret[c].img_size = "large"

\* C10: every set_gauge call sends one score request, whatever the files
\* and whatever calls came before, and leaves the files as they were.
C10_GaugeBypassesStore ==
    /\ [](\A c \in Ctx :
            (pc[c] # "idle" /\ call[c].op = "gauge")
            => /\ Done(c)
               /\ issued[c] = <<[url |-> ScoreUrl(call[c].client_id),
                                 timeout |-> no_timeout]>>
               /\ loc[c].filepath = ""
               /\ ret[c].kind \in {"fig", "error"})
    /\ [][\A c \in Ctx :
            (nops' # nops /\ call'[c].op = "gauge") => files' = files]_vars

\* C10 witness: set_gauge has returned its figure while files are cached.
C10_Witness ==
    \E c \in Ctx :
        /\ Done(c)
        /\ call[c].op = "gauge"
        /\ ret[c].kind = "fig"
        /\ Len(issued[c]) = 1
        /\ DOMAIN files # {}

\* The names the claims give to the files: gfgi_{n}, gfli_{id}_{n},
\* feature_{id}_{idx}, bivar{i}_{j} in the order the features were given,
\* and the reverse-order name of a pair.
KeyAsGiven(k) ==
    CASE k.op = "global" -> "./data/tmp/gfgi_" \o ToString(k.max_feat) \o ".png"
      [] k.op = "local" ->
            "./data/tmp/gfli_" \o ToString(k.client_id) \o "_"
                \o ToString(k.max_feat) \o ".png"
      [] k.op = "feature" ->
            "./data/tmp/feature_" \o ToString(k.client_id) \o "_"
                \o ToString(Index(features_list, k.feature_1)) \o ".png"
      [] k.op = "bivar" ->
            "./data/tmp/bivar" \o ToString(Index(features_list, k.feature_1)) \o "_"
                \o ToString(Index(features_list, k.feature_2)) \o ".png"
      [] OTHER -> ""

KeyReversed(k) ==
    "./data/tmp/bivar" \o ToString(Index(features_list, k.feature_2)) \o "_"
        \o ToString(Index(features_list, k.feature_1)) \o ".png"

\* Context c makes a call in this step, the other contexts being idle.
Entering(c) == nops' # nops /\ \A d \in Ctx \ {c} : pc[d] = "idle"

ValidBivar(k) == k.op = "bivar" /\ Listed(k.feature_1) /\ Listed(k.feature_2)

C12_NeverRewritten ==
    /\ [][\A p \in DOMAIN files :
            /\ p \in DOMAIN files'
            /\ files'[p] # files[p]
               => \E c \in Ctx :
                    /\ pc[c] = "copy"
                    /\ loc[c].filepath = p
                    /\ loc[c].found = "miss"
                    /\ Len(files[p]) = loc[c].pos
                    /\ Len(files'[p]) = loc[c].pos + 1]_vars
    /\ [][\A c \in Ctx :
            (pc[c] = "open" /\ pc'[c] = "copy") => loc[c].filepath \notin DOMAIN files]_vars
    /\ [][\A c \in Ctx :
            (/\ Entering(c) \/ pc[c] = "exists2"
             /\ pc'[c] = "done"
             /\ loc'[c].found \in {"primary", "reverse"})
            => files' = files]_vars

\* C12 witness: a second call has found the file the first one stored, and
\* the file still holds the whole image.
C12_Witness ==
    \E c \in Ctx :
        /\ SecondOfTwo(c)
        /\ last[c].found = "miss"
        /\ last[c].ret.kind = "path"
        /\ loc[c].found = "primary"
        /\ call[c].op = "feature"
        /\ files[ret[c].val] = Body(Url(call[c]))

\* C13: every request sent carries a timeout: 60 for the bivariate stream,
\* 30 for every other call.
C13_EveryCallHasTimeout ==
    \A c \in Ctx :
        \A i \in 1..Len(issued[c]) :
            issued[c][i].timeout = (IF call[c].op = "bivar" THEN 60 ELSE 30)

\* Two contexts have both missed the same file, both had an answer to their
\* request, both opened the file, and both calls have ended.
BothWrote(c, d) ==
    /\ c # d
    /\ Done(c) /\ Done(d)
    /\ call[c].op \in StreamOps
    /\ call[c] = call[d]
    /\ loc[c].found = "miss" /\ loc[d].found = "miss"
    /\ loc[c].status # "" /\ loc[d].status # ""
    /\ ret[c] # ErrorRet("RequestException")
    /\ ret[d] # ErrorRet("RequestException")

\* C14: when two contexts fetch and write the same missing file
\* concurrently, the file holds the whole image of the request once both
\* calls have ended, in every interleaving.
C14_LastWriterWins ==
    \A c, d \in Ctx :
        BothWrote(c, d)
        => /\ Exists(files, KeyAsGiven(call[c]))
           /\ files[KeyAsGiven(call[c])] = Body(Url(call[c]))

\* A call that found none of its candidate files has ended.
MissDone(c) ==
    /\ Done(c)
    /\ call[c].op \in StreamOps
    /\ loc[c].found = "miss"

\* C15 as stated: a call that finds none of its candidate files issues one
\* matching remote call, writes the answer under the primary name only and
\* returns that path; for bivar the primary name is in the as-given order
\* and the reverse-order name is not created.
C15_FetchOnMissAsStated ==
    \A c \in Ctx :
        MissDone(c)
        => /\ issued[c] = <<RemoteCall(call[c])>>
           /\ ret[c].kind = "path"
           /\ ret[c].val = KeyAsGiven(call[c])
           /\ Exists(files, KeyAsGiven(call[c]))
           /\ call[c].op = "bivar" /\ call[c].feature_1 # call[c].feature_2
              => ~Exists(files, KeyReversed(call[c]))

\* C15 amended: a call that finds none of its candidate files issues one
\* matching remote call, and nothing but the primary name (for bivar the
\* as-given order) is created or written while it runs, the reverse-order
\* name is not created; the call returns a path only when the request was
\* answered and the copy ran to its end, and then the path is the primary
\* name and the file under it holds the whole answer.
C15_FetchOnMissWritesPrimary ==
    /\ [](\A c \in Ctx :
            MissDone(c)
            => /\ issued[c] = <<RemoteCall(call[c])>>
               /\ call[c].op = "bivar" /\ call[c].feature_1 # call[c].feature_2
                  => ~Exists(files, KeyReversed(call[c]))
               /\ ret[c].kind = "path"
                  => /\ ret[c].val = KeyAsGiven(call[c])
                     /\ Exists(files, KeyAsGiven(call[c]))
                     /\ loc[c].status # ""
                     /\ files[KeyAsGiven(call[c])] = loc[c].r
               /\ ret[c].kind # "path"
                  => ret[c] \in {ErrorRet("RequestException"), ErrorRet("ReadTimeoutError")})
    /\ [][\A c \in Ctx :
            (loc[c].found = "miss" /\ pc[c] \in {"request", "open", "copy"})
            => \A p \in DOMAIN files' :
                  p # KeyAsGiven(call[c]) => (p \in DOMAIN files /\ files'[p] = files[p])]_vars

\* C15 witness: bivar(a, b), a # b, found neither file, fetched, and
\* returned the as-given name; the reverse-order name does not exist.
C15_Witness ==
    \E c \in Ctx :
        /\ MissDone(c)
        /\ ValidBivar(call[c])
        /\ Index(features_list, call[c].feature_1) > Index(features_list, call[c].feature_2)
        /\ ret[c].kind = "path"
        /\ ret[c].val = KeyAsGiven(call[c])
        /\ Len(issued[c]) = 1
        /\ Exists(files, KeyAsGiven(call[c]))
        /\ ~Exists(files, KeyReversed(call[c]))

\* The hint of a pair, a function of the two names and the catalog alone.
LayoutHint(a, b) == IF Mixed(a, b) THEN "large" ELSE "normal"

BivarReturned(c) == Done(c) /\ call[c].op = "bivar" /\ ret[c].kind = "path"

\* C16: the hint bivar returns for (a, b) is the same whether the file was
\* found under the as-given name, found under the reverse-order name, or
\* fetched: it is a function of the pair alone, so two successive calls for
\* the same pair give the same hint whatever the store held; a call that
\* finds the file issues no request and changes no file, and the step that
\* returns after a fetch issues no further request and leaves the set of
\* stored names as it is.
C16_HintIndependentOfStore ==
    /\ [](\A c \in Ctx :
            BivarReturned(c)
            => /\ loc[c].found \in {"primary", "reverse", "miss"}
               /\ ret[c].img_size = LayoutHint(call[c].feature_1, call[c].feature_2)
               /\ loc[c].found \in {"primary", "reverse"} => issued[c] = <<>>
               /\ loc[c].found = "miss" => Len(issued[c]) = 1
               /\ (last[c].call = call[c] /\ last[c].ret.kind = "path")
                  => last[c].ret.img_size = ret[c].img_size)
    /\ [][\A c \in Ctx :
            (/\ call'[c].op = "bivar"
             /\ pc'[c] = "done"
             /\ ret'[c].kind = "path"
             /\ Entering(c) \/ pc[c] \in {"exists2", "copy"})
            => /\ DOMAIN files' = DOMAIN files
               /\ pc[c] = "copy" => issued'[c] = issued[c]
               /\ pc[c] # "copy" => (files' = files /\ issued'[c] = <<>>)]_vars

\* C16 witness: bivar(numeric, categorical) has found the file stored by
\* bivar(categorical, numeric) under the reverse-order name, and both calls
\* returned 'large'.
C16_Witness ==
    \E c \in Ctx :
        /\ BivarReturned(c)
        /\ ReversedPair(c)
        /\ call[c].feature_1 \in num_col
        /\ call[c].feature_2 \in cat_col
        /\ loc[c].found = "reverse"
        /\ issued[c] = <<>>
        /\ last[c].ret.img_size = "large"
        /\ ret[c].img_size = "large"

\* The stored name of the pair of indexes i, j in that order.
PairKey(i, j) == "./data/tmp/bivar" \o ToString(i) \o "_" \o ToString(j) \o ".png"

FeatureIndexes == 0..(Len(features_list) - 1)

\* C17: with one call at a time, bivar{i}_{j} and bivar{j}_{i}, i # j, are
\* never both stored, whatever the order and the outcome of the calls.
C17_NoDuplicatePair ==
    \A i, j \in FeatureIndexes :
        i # j => ~(PairKey(i, j) \in DOMAIN files /\ PairKey(j, i) \in DOMAIN files)

\* C17 witness: bivar was called for a pair in both orders and both calls
\* returned a path; one of the two names of the pair is stored.
C17_Witness ==
    \E c \in Ctx :
        /\ ReversedPair(c)
        /\ last[c].ret.kind = "path"
        /\ ret[c].kind = "path"
        /\ \E i, j \in FeatureIndexes :
              /\ i = Index(features_list, call[c].feature_1)
              /\ j = Index(features_list, call[c].feature_2)
              /\ PairKey(j, i) \in DOMAIN files
              /\ PairKey(i, j) \notin DOMAIN files

\* The calls that name a file: every call of the four graph functions that
\* gets past features_list.index.
StreamCalls == {k \in PageCalls \cup DirectCalls : k.op \in StreamOps /\ ~IndexRaises(k)}

\* Two requests ask for the same thing: the same function with the same
\* client id, max_feat or feature, or bivar with the same unordered pair.
SemEqual(j, k) ==
    /\ j.op = k.op
    /\ CASE k.op = "global" -> j.max_feat = k.max_feat
         [] k.op = "local" -> j.client_id = k.client_id /\ j.max_feat = k.max_feat
         [] k.op = "feature" -> j.client_id = k.client_id /\ j.feature_1 = k.feature_1
         [] k.op = "bivar" -> {j.feature_1, j.feature_2} = {k.feature_1, k.feature_2}
         [] OTHER -> FALSE

\* The names under which a call looks for its file.
CandidatePaths(k) == {PrimaryPath(k)} \cup (IF k.op = "bivar" THEN {ReversePath(k)} ELSE {})

\* Two calls look under a common name only when they ask for the same
\* thing.
KeysInjective ==
    \A j, k \in StreamCalls :
        (CandidatePaths(j) \cap CandidatePaths(k) # {}) => SemEqual(j, k)

\* For the URL of a request, the names under which the calls that send it
\* write; for a call, the URLs of the requests that ask for the same thing.
WritersOf ==
    [u \in {Url(k) : k \in StreamCalls} |->
        {PrimaryPath(k) : k \in {j \in StreamCalls : Url(j) = u}}]

UrlsFor ==
    [k \in StreamCalls |-> {Url(j) : j \in {i \in StreamCalls : SemEqual(i, k)}}]

\* C18: with one call at a time from an empty directory, two calls look
\* under a common name only when they ask for the same thing; every chunk
\* stored under a name was fetched by a call that writes under that name;
\* and the file whose path a call returns exists and holds only chunks
\* fetched for a request that asks for the same thing as the call.
C18_CacheCoherence ==
    /\ KeysInjective
    /\ \A p \in DOMAIN files :
            \A i \in 1..Len(files[p]) :
                /\ files[p][i][2] \in DOMAIN WritersOf
                /\ p \in WritersOf[files[p][i][2]]
    /\ \A c \in Ctx :
            (Done(c) /\ call[c].op \in StreamOps /\ ret[c].kind = "path")
            => /\ Exists(files, ret[c].val)
               /\ call[c] \in StreamCalls
               /\ ret[c].val \in CandidatePaths(call[c])
               /\ \A i \in 1..Len(files[ret[c].val]) :
                     files[ret[c].val][i][2] \in UrlsFor[call[c]]
               /\ loc[c].found = "miss" => files[ret[c].val] = loc[c].r

\* C18 witness: graph_feature was called for the same feature and two
\* clients; each client has its own file, holding its own image.
C18_Witness ==
    \E c \in Ctx :
        /\ Done(c)
        /\ call[c].op = "feature"
        /\ ret[c].kind = "path"
        /\ \E other \in Range(clients_id_list) \ {call[c].client_id} :
              LET o == [call[c] EXCEPT !.client_id = other]
              IN  /\ KeyAsGiven(o) # KeyAsGiven(call[c])
                  /\ Exists(files, KeyAsGiven(o))
                  /\ files[KeyAsGiven(o)] = Body(Url(o))
                  /\ files[ret[c].val] = Body(Url(call[c]))

\* The request of a call made no connection: requests raised before there
\* was a response.
ConnectFailed(c) ==
    /\ Done(c)
    /\ call[c].op \in StreamOps
    /\ ret[c] = ErrorRet("RequestException")

\* C19: when the request of a call that found none of its files fails
\* before any response, the call ends there with the error: that one
\* request is all it issued, none of its candidate names is stored, and no
\* step of the call, from the os.path.exists tests to the failed request,
\* changes the files.
C19_ConnectFailureLeavesStore ==
    /\ [](\A c \in Ctx :
            ConnectFailed(c)
            => /\ loc[c].found = "miss"
               /\ issued[c] = <<RemoteCall(call[c])>>
               /\ loc[c].status = ""
               /\ ~Exists(files, KeyAsGiven(call[c]))
               /\ call[c].op = "bivar" => ~Exists(files, KeyReversed(call[c])))
    /\ [][\A c \in Ctx :
            (pc[c] = "request" /\ pc'[c] = "done")
            => /\ ret'[c] = ErrorRet("RequestException")
               /\ issued'[c] = <<RemoteCall(call[c])>>
               /\ files' = files]_vars
    /\ [][\A c \in Ctx :
            (pc'[c] # pc[c] /\ pc'[c] \in {"exists2", "request"}) => files' = files]_vars

\* C19 witness: graph_features_local_impact failed to connect while another
\* file was stored; the file it was about to write does not exist.
C19_Witness ==
    \E c \in Ctx :
        /\ ConnectFailed(c)
        /\ call[c].op = "local"
        /\ Len(issued[c]) = 1
        /\ DOMAIN files # {}
        /\ ~Exists(files, KeyAsGiven(call[c]))

====
